---- MODULE Spec2Model ----
(***************************************************************************)
(* Model of exposurescrawler/crawlers/tableau.py: the Tableau crawler that *)
(* links workbooks to the dbt models their SQL references and registers    *)
(* one exposure per workbook in the dbt manifest.                          *)
(*                                                                         *)
(* A WorkbookModelsMapping (a Python dict, insertion ordered) is a         *)
(* sequence of entries [ref, val] whose keys are pairwise different.       *)
(* A string that the code inspects character by character (a project      *)
(* name, the text of a command-line option) is a sequence of characters.   *)
(***************************************************************************)
EXTENDS Naturals, Sequences, FiniteSets

VARIABLES
    pc,                           \* position of the run in tableau_crawler
    tableau_projects_to_ignore,   \* the ignore collection the crawler received
    method,                       \* name of the manifest method that persists
    workbooks_custom_sqls,
    workbooks_custom_sql_models,
    workbooks_native_sqls,
    workbooks_native_sql_models,
    workbooks_models,             \* the merged mapping
    todo,                         \* items the exposure loop has not started yet
    current,                      \* <<item>> while the loop body runs, else <<>>
    workbook,                     \* <<metadata>> once retrieve_workbook returned
    owner,                        \* <<user>> once retrieve_user returned
    calls,                        \* calls received by the Tableau REST client
    skipped,                      \* workbooks the loop skipped (the debug log)
    exposures,                    \* add_exposure calls received by the manifest
    saved,                        \* what the persisted manifest holds, <<>> if none
    raised_at,                    \* where the exception that ended the run rose
    cli_option,                   \* <<text>> of --tableau-ignore-projects, <<>> if not given
    agg_sqls,                     \* aggregator harness: the mapping passed
    agg_models,                   \* aggregator harness: the registry passed
    agg_result                    \* aggregator harness: <<outcome>> once called

vars == <<pc, tableau_projects_to_ignore, method, workbooks_custom_sqls,
          workbooks_custom_sql_models, workbooks_native_sqls,
          workbooks_native_sql_models, workbooks_models, todo, current,
          workbook, owner, calls, skipped, exposures, saved, raised_at,
          cli_option, agg_sqls, agg_models, agg_result>>

(***************************************************************************)
(* Bounds and input samples                                                *)
(***************************************************************************)
\* longest list of SQL snippets of one workbook handed to the aggregator alone
MaxSqls == 2

SeqsUpTo(S, n) == UNION {[1..k -> S] : k \in 0..n}

\* Workbook references: two share an identifier, two share a display name.
Refs == {[id |-> 1, name |-> "kpi"], [id |-> 1, name |-> "kpi v2"],
         [id |-> 2, name |-> "kpi"]}

RefIds == {r.id : r \in Refs}

\* The nodes of the manifest (models and sources), in manifest order.
Models == << [unique_id |-> "m1", materialized_name |-> "orders"],
             [unique_id |-> "m2", materialized_name |-> "stg_orders"] >>

Sql(tokens) == [ok |-> TRUE, tokens |-> tokens]
\* a snippet the matcher cannot scan (not decodable text)
BadSql == [ok |-> FALSE, tokens |-> <<>>]

SqlOrders    == Sql(<<"from", "Orders">>)
SqlBoth      == Sql(<<"STG_ORDERS", "orders", "stg_orders">>)
SqlStg       == Sql(<<"from", "stg_orders">>)
SqlNoModel   == Sql(<<"from", "orders_archive">>)

Snippets == {SqlOrders, SqlBoth, SqlNoModel, BadSql}

\* registries the aggregator is called with alone
Registries == {<<>>, SubSeq(Models, 1, 1), Models}

\* Project names, as character sequences; the empty one is a personal space.
NoProject == <<>>
Sales     == <<"S", "a", "l", "e", "s">>
Ops       == <<"O", "p", "s">>
LetterS   == <<"S">>
ProjectNames == {NoProject, Sales, Ops, LetterS}

(***************************************************************************)
(* Mappings keyed by workbook reference                                    *)
(***************************************************************************)
\* Two references are the same dictionary key when their identifiers agree.
RefEq(a, b) == a.id = b.id

HasKey(mapping, ref) == \E i \in 1..Len(mapping) : RefEq(mapping[i].ref, ref)

KeyIndex(mapping, ref) ==
    CHOOSE i \in 1..Len(mapping) : RefEq(mapping[i].ref, ref)

Get(mapping, ref) ==
    IF HasKey(mapping, ref) THEN mapping[KeyIndex(mapping, ref)].val ELSE <<>>

KeyIds(mapping) == {mapping[i].ref.id : i \in 1..Len(mapping)}

KeyIdSeq(mapping) == [i \in 1..Len(mapping) |-> mapping[i].ref.id]

DistinctKeys(mapping) ==
    \A i, j \in 1..Len(mapping) : RefEq(mapping[i].ref, mapping[j].ref) => i = j

\* every dict of workbook references to values drawn from vals
Mappings(vals) ==
    {m \in SeqsUpTo([ref : Refs, val : vals], Cardinality(RefIds)) : DistinctKeys(m)}

Count(x, seq) == Cardinality({i \in 1..Len(seq) : seq[i] = x})

(***************************************************************************)
(* search_model_in_query: the models a query names, in first-seen order    *)
(***************************************************************************)
Lower(token) ==
    CASE token = "Orders" -> "orders"
      [] token = "ORDERS" -> "orders"
      [] token = "STG_ORDERS" -> "stg_orders"
      [] OTHER -> token

RECURSIVE ScanTokens(_, _, _)
ScanTokens(tokens, models, seen) ==
    IF tokens = <<>> THEN seen
    ELSE LET name == Lower(Head(tokens))
             hits == SelectSeq(models, LAMBDA m :
                        /\ m.materialized_name = name
                        /\ \A j \in 1..Len(seen) : seen[j].unique_id # m.unique_id)
         IN  ScanTokens(Tail(tokens), models, seen \o hits)

\* the values of the mapping unique_id -> model the matcher returns
SearchModelInQuery(sql, models) == ScanTokens(sql.tokens, models, <<>>)

\* the matcher raises on a query it cannot scan
SearchRaises(sql) == ~sql.ok

(***************************************************************************)
(* _parse_tables_from_sql                                                  *)
(***************************************************************************)
RECURSIVE AllFound(_, _)
AllFound(custom_sqls, models) ==
    IF custom_sqls = <<>> THEN <<>>
    ELSE LET models_found_query == SearchModelInQuery(Head(custom_sqls), models)
         IN  (IF models_found_query # <<>> THEN models_found_query ELSE <<>>)
                \o AllFound(Tail(custom_sqls), models)

KeepWorkbookAlways(all_found) == TRUE

KeepWorkbook(all_found) == all_found # <<>>

RECURSIVE ParseOutput(_, _)
ParseOutput(workbooks_sqls, models) ==
    IF workbooks_sqls = <<>> THEN <<>>
    ELSE LET item == Head(workbooks_sqls)
             all_found == AllFound(item.val, models)
         IN  (IF KeepWorkbook(all_found)
              THEN << [ref |-> item.ref, val |-> all_found] >>
              ELSE <<>>)
                \o ParseOutput(Tail(workbooks_sqls), models)

\* No handler surrounds the call of the matcher: its exception leaves the loop.
ParseRaises(workbooks_sqls) ==
    \E i \in 1..Len(workbooks_sqls) :
        \E j \in 1..Len(workbooks_sqls[i].val) : SearchRaises(workbooks_sqls[i].val[j])

ParseTablesFromSql(workbooks_sqls, models) ==
    IF ParseRaises(workbooks_sqls)
    THEN [raised |-> TRUE, output |-> <<>>]
    ELSE [raised |-> FALSE, output |-> ParseOutput(workbooks_sqls, models)]

(***************************************************************************)
(* Merge of the two per-source mappings (tableau_crawler)                  *)
(***************************************************************************)
ChainReversed(first, second) == second \o first

Chain(first, second) == first \o second

ExtendOverwrites(old, found) == found

Extend(old, found) == old \o found

SetDefaultAlwaysNew(mapping, ref) == Append(mapping, [ref |-> ref, val |-> <<>>])

\* dict.setdefault(ref, []): a new key goes last, an existing key keeps its place
SetDefault(mapping, ref) ==
    IF HasKey(mapping, ref) THEN mapping
    ELSE Append(mapping, [ref |-> ref, val |-> <<>>])

\* index of the entry setdefault returned: the first one with that key
EntryIndex(mapping, ref) ==
    CHOOSE i \in 1..Len(mapping) :
        /\ RefEq(mapping[i].ref, ref)
        /\ \A j \in 1..(i - 1) : ~RefEq(mapping[j].ref, ref)

RECURSIVE MergeItems(_, _)
MergeItems(items, acc) ==
    IF items = <<>> THEN acc
    ELSE LET item == Head(items)
             withKey == SetDefault(acc, item.ref)
             at == IF Len(withKey) > Len(acc) THEN Len(withKey)
                   ELSE EntryIndex(withKey, item.ref)
         IN  MergeItems(Tail(items),
                 [withKey EXCEPT ![at].val = Extend(@, item.val)])

MergeResults(custom, native) == MergeItems(Chain(custom, native), <<>>)

(***************************************************************************)
(* _should_ignore_workbook                                                 *)
(***************************************************************************)
IsSubstring(needle, text) ==
    \E i \in 0..Len(text) :
        /\ i + Len(needle) <= Len(text)
        /\ SubSeq(text, i + 1, i + Len(needle)) = needle

ListOf(items) == [kind |-> "list", items |-> items, text |-> <<>>]
StrOf(text) == [kind |-> "str", items |-> {}, text |-> text]

\* Python's `in`: an element test on a list, a substring test on a str
Contains(collection, name) ==
    IF collection.kind = "str" THEN IsSubstring(name, collection.text)
    ELSE name \in collection.items

ShouldIgnoreWorkbook(wb, projects_to_ignore) ==
    IF wb.project_name = <<>> THEN TRUE
    ELSE Contains(projects_to_ignore, wb.project_name)

(***************************************************************************)
(* DbtExposure.from_tableau_workbook                                       *)
(***************************************************************************)
RECURSIVE DedupIds(_, _)
DedupIds(found, seen) ==
    IF found = <<>> THEN seen
    ELSE DedupIds(Tail(found),
            IF \E j \in 1..Len(seen) : seen[j] = Head(found).unique_id
            THEN seen ELSE Append(seen, Head(found).unique_id))

FromTableauWorkbook(wb, user, found) ==
    [id |-> wb.id, name |-> wb.name, owner |-> user.name,
     depends_on |-> DedupIds(found, <<>>)]

(***************************************************************************)
(* The run of tableau_crawler                                              *)
(***************************************************************************)
\* SQL lists of one workbook as the GraphQL client returns them in a run
RunSqlLists == {<<SqlNoModel>>, <<SqlStg>>, <<SqlOrders, SqlBoth>>, <<BadSql>>}

\* ignore collections a caller passes to tableau_crawler directly
CallerIgnoreLists == {ListOf({}), ListOf({Sales}), ListOf({Sales, Ops})}

\* texts typed after --tableau-ignore-projects
OptionTexts == {Sales}

Chars(text) == {<<text[i]>> : i \in 1..Len(text)}

\* What click hands over for an option declared with default=[] and neither a
\* type nor multiple=True: the default when the option is absent; otherwise the
\* text itself (type guessed STRING) or list(text), depending on the click release.
OptionValues(option) ==
    IF option = <<>> THEN {ListOf({})}
    ELSE {StrOf(option[1]), ListOf(Chars(option[1]))}

Idle ==
    /\ method = ""
    /\ workbooks_custom_sqls = <<>>
    /\ workbooks_custom_sql_models = <<>>
    /\ workbooks_native_sqls = <<>>
    /\ workbooks_native_sql_models = <<>>
    /\ workbooks_models = <<>>
    /\ todo = <<>>
    /\ current = <<>>
    /\ workbook = <<>>
    /\ owner = <<>>
    /\ calls = <<>>
    /\ skipped = <<>>
    /\ exposures = <<>>
    /\ saved = <<>>
    /\ raised_at = ""
    /\ cli_option = <<>>
    /\ tableau_projects_to_ignore = ListOf({})

Init ==
    /\ pc = "idle"
    /\ Idle
    /\ agg_sqls = <<>>
    /\ agg_models = <<>>
    /\ agg_result = <<>>

\* Manifest given as a JSON string: save_to_yml; given as a path: save.
LoadManifest(is_json) == IF is_json THEN "save_to_yml" ELSE "save"

\* tableau_crawler called from Python with an ignore collection
CallCrawler ==
    /\ pc = "idle"
    /\ \E ignore \in CallerIgnoreLists, is_json \in BOOLEAN :
        /\ tableau_projects_to_ignore' = ignore
        /\ method' = LoadManifest(is_json)
    /\ pc' = "started"
    /\ UNCHANGED <<workbooks_custom_sqls, workbooks_custom_sql_models,
                   workbooks_native_sqls, workbooks_native_sql_models,
                   workbooks_models, todo, current, workbook, owner, calls,
                   skipped, exposures, saved, raised_at, cli_option,
                   agg_sqls, agg_models, agg_result>>

\* tableau_crawler_command: the arguments come from the command line
TableauCrawlerCommand ==
    /\ pc = "idle"
    /\ \E option \in {<<>>} \cup {<<t>> : t \in OptionTexts} :
        /\ cli_option' = option
        /\ \E value \in OptionValues(option) : tableau_projects_to_ignore' = value
    /\ method' = LoadManifest(FALSE)
    /\ pc' = "started"
    /\ UNCHANGED <<workbooks_custom_sqls, workbooks_custom_sql_models,
                   workbooks_native_sqls, workbooks_native_sql_models,
                   workbooks_models, todo, current, workbook, owner, calls,
                   skipped, exposures, saved, raised_at, agg_sqls, agg_models, agg_result>>

RetrieveCustomSql ==
    /\ pc = "started"
    /\ workbooks_custom_sqls' \in Mappings(RunSqlLists)
    /\ pc' = "custom_sqls"
    /\ UNCHANGED <<tableau_projects_to_ignore, method, workbooks_custom_sql_models,
                   workbooks_native_sqls, workbooks_native_sql_models,
                   workbooks_models, todo, current, workbook, owner, calls,
                   skipped, exposures, saved, raised_at, cli_option,
                   agg_sqls, agg_models, agg_result>>

ParseCustomSql ==
    /\ pc = "custom_sqls"
    /\ LET result == ParseTablesFromSql(workbooks_custom_sqls, Models)
       IN  IF result.raised
           THEN /\ pc' = "raised"
                /\ raised_at' = "parse_custom_sql"
                /\ UNCHANGED workbooks_custom_sql_models
           ELSE /\ pc' = "custom_models"
                /\ workbooks_custom_sql_models' = result.output
                /\ UNCHANGED raised_at
    /\ UNCHANGED <<tableau_projects_to_ignore, method, workbooks_custom_sqls,
                   workbooks_native_sqls, workbooks_native_sql_models,
                   workbooks_models, todo, current, workbook, owner, calls,
                   skipped, exposures, saved, cli_option, agg_sqls, agg_models, agg_result>>

RetrieveNativeSql ==
    /\ pc = "custom_models"
    /\ workbooks_native_sqls' \in Mappings(RunSqlLists)
    /\ pc' = "native_sqls"
    /\ UNCHANGED <<tableau_projects_to_ignore, method, workbooks_custom_sqls,
                   workbooks_custom_sql_models, workbooks_native_sql_models,
                   workbooks_models, todo, current, workbook, owner, calls,
                   skipped, exposures, saved, raised_at, cli_option,
                   agg_sqls, agg_models, agg_result>>

ParseNativeSql ==
    /\ pc = "native_sqls"
    /\ LET result == ParseTablesFromSql(workbooks_native_sqls, Models)
       IN  IF result.raised
           THEN /\ pc' = "raised"
                /\ raised_at' = "parse_native_sql"
                /\ UNCHANGED workbooks_native_sql_models
           ELSE /\ pc' = "native_models"
                /\ workbooks_native_sql_models' = result.output
                /\ UNCHANGED raised_at
    /\ UNCHANGED <<tableau_projects_to_ignore, method, workbooks_custom_sqls,
                   workbooks_custom_sql_models, workbooks_native_sqls,
                   workbooks_models, todo, current, workbook, owner, calls,
                   skipped, exposures, saved, cli_option, agg_sqls, agg_models, agg_result>>

\* the merge loop, then the exposure loop takes the items of the merged mapping
Merge ==
    /\ pc = "native_models"
    /\ workbooks_models' =
          MergeResults(workbooks_custom_sql_models, workbooks_native_sql_models)
    /\ todo' = workbooks_models'
    /\ pc' = "loop"
    /\ UNCHANGED <<tableau_projects_to_ignore, method, workbooks_custom_sqls,
                   workbooks_custom_sql_models, workbooks_native_sqls,
                   workbooks_native_sql_models, current, workbook, owner, calls,
                   skipped, exposures, saved, raised_at, cli_option,
                   agg_sqls, agg_models, agg_result>>

Call(op, arg, about) == [op |-> op, arg |-> arg, about |-> about]

OwnerId(workbook_id) == workbook_id + 10

\* next item of the loop; retrieve_workbook(workbook_reference.id) returns
RetrieveWorkbook ==
    /\ pc = "loop"
    /\ todo # <<>>
    /\ current' = <<Head(todo)>>
    /\ todo' = Tail(todo)
    /\ calls' = Append(calls, Call("retrieve_workbook", Head(todo).ref.id, Head(todo).ref.id))
    /\ \E project_name \in ProjectNames :
          workbook' = << [id |-> Head(todo).ref.id, name |-> Head(todo).ref.name,
                          project_name |-> project_name,
                          owner_id |-> OwnerId(Head(todo).ref.id)] >>
    /\ pc' = "workbook"
    /\ UNCHANGED <<tableau_projects_to_ignore, method, workbooks_custom_sqls,
                   workbooks_custom_sql_models, workbooks_native_sqls,
                   workbooks_native_sql_models, workbooks_models, owner,
                   skipped, exposures, saved, raised_at, cli_option,
                   agg_sqls, agg_models, agg_result>>

\* The loop body has no handler: the exception leaves tableau_crawler.
RetrieveWorkbookRaisesSkipped ==
    /\ pc = "loop"
    /\ todo # <<>>
    /\ current' = <<Head(todo)>>
    /\ todo' = Tail(todo)
    /\ calls' = Append(calls, Call("retrieve_workbook", Head(todo).ref.id, Head(todo).ref.id))
    /\ pc' = "loop"
    /\ raised_at' = "retrieve_workbook"
    /\ UNCHANGED <<tableau_projects_to_ignore, method, workbooks_custom_sqls,
                   workbooks_custom_sql_models, workbooks_native_sqls,
                   workbooks_native_sql_models, workbooks_models, workbook, owner,
                   skipped, exposures, saved, cli_option, agg_sqls, agg_models, agg_result>>

RetrieveWorkbookRaises ==
    /\ pc = "loop"
    /\ todo # <<>>
    /\ current' = <<Head(todo)>>
    /\ todo' = Tail(todo)
    /\ calls' = Append(calls, Call("retrieve_workbook", Head(todo).ref.id, Head(todo).ref.id))
    /\ pc' = "raised"
    /\ raised_at' = "retrieve_workbook"
    /\ UNCHANGED <<tableau_projects_to_ignore, method, workbooks_custom_sqls,
                   workbooks_custom_sql_models, workbooks_native_sqls,
                   workbooks_native_sql_models, workbooks_models, workbook, owner,
                   skipped, exposures, saved, cli_option, agg_sqls, agg_models, agg_result>>

RetrieveUser ==
    /\ pc = "workbook"
    /\ calls' = Append(calls, Call("retrieve_user", workbook[1].owner_id, current[1].ref.id))
    /\ owner' = << [id |-> workbook[1].owner_id, name |-> "alice"] >>
    /\ pc' = "owner"
    /\ UNCHANGED <<tableau_projects_to_ignore, method, workbooks_custom_sqls,
                   workbooks_custom_sql_models, workbooks_native_sqls,
                   workbooks_native_sql_models, workbooks_models, todo, current,
                   workbook, skipped, exposures, saved, raised_at, cli_option,
                   agg_sqls, agg_models, agg_result>>

RetrieveUserRaises ==
    /\ pc = "workbook"
    /\ calls' = Append(calls, Call("retrieve_user", workbook[1].owner_id, current[1].ref.id))
    /\ pc' = "raised"
    /\ raised_at' = "retrieve_user"
    /\ UNCHANGED <<tableau_projects_to_ignore, method, workbooks_custom_sqls,
                   workbooks_custom_sql_models, workbooks_native_sqls,
                   workbooks_native_sql_models, workbooks_models, todo, current,
                   workbook, owner, skipped, exposures, saved, cli_option,
                   agg_sqls, agg_models, agg_result>>

\* the workbook is ignored: logged, and the loop continues with the next item
SkipWorkbookAndRegister ==
    /\ pc = "owner"
    /\ ShouldIgnoreWorkbook(workbook[1], tableau_projects_to_ignore)
    /\ skipped' = Append(skipped, workbook[1].id)
    /\ exposures' = Append(exposures,
                        FromTableauWorkbook(workbook[1], owner[1], current[1].val))
    /\ pc' = "loop"
    /\ UNCHANGED <<tableau_projects_to_ignore, method, workbooks_custom_sqls,
                   workbooks_custom_sql_models, workbooks_native_sqls,
                   workbooks_native_sql_models, workbooks_models, todo, current,
                   workbook, owner, calls, saved, raised_at, cli_option,
                   agg_sqls, agg_models, agg_result>>

SkipWorkbook ==
    /\ pc = "owner"
    /\ ShouldIgnoreWorkbook(workbook[1], tableau_projects_to_ignore)
    /\ skipped' = Append(skipped, workbook[1].id)
    /\ pc' = "loop"
    /\ UNCHANGED <<tableau_projects_to_ignore, method, workbooks_custom_sqls,
                   workbooks_custom_sql_models, workbooks_native_sqls,
                   workbooks_native_sql_models, workbooks_models, todo, current,
                   workbook, owner, calls, exposures, saved, raised_at, cli_option,
                   agg_sqls, agg_models, agg_result>>

\* the exposure is built from the workbook, its owner and the models found,
\* and handed to manifest.add_exposure
AddExposure ==
    /\ pc = "owner"
    /\ ~ShouldIgnoreWorkbook(workbook[1], tableau_projects_to_ignore)
    /\ exposures' = Append(exposures,
                        FromTableauWorkbook(workbook[1], owner[1], current[1].val))
    /\ pc' = "loop"
    /\ UNCHANGED <<tableau_projects_to_ignore, method, workbooks_custom_sqls,
                   workbooks_custom_sql_models, workbooks_native_sqls,
                   workbooks_native_sql_models, workbooks_models, todo, current,
                   workbook, owner, calls, skipped, saved, raised_at, cli_option,
                   agg_sqls, agg_models, agg_result>>

SignOut ==
    /\ pc = "loop"
    /\ todo = <<>>
    /\ calls' = Append(calls, Call("sign_out", 0, 0))
    /\ pc' = "signed_out"
    /\ UNCHANGED <<tableau_projects_to_ignore, method, workbooks_custom_sqls,
                   workbooks_custom_sql_models, workbooks_native_sqls,
                   workbooks_native_sql_models, workbooks_models, todo, current,
                   workbook, owner, skipped, exposures, saved, raised_at,
                   cli_option, agg_sqls, agg_models, agg_result>>

\* getattr(manifest, method)(path): the manifest with its exposures is written
Save ==
    /\ pc = "signed_out"
    /\ saved' = << [method |-> method, exposures |-> exposures] >>
    /\ pc' = "done"
    /\ UNCHANGED <<tableau_projects_to_ignore, method, workbooks_custom_sqls,
                   workbooks_custom_sql_models, workbooks_native_sqls,
                   workbooks_native_sql_models, workbooks_models, todo, current,
                   workbook, owner, calls, skipped, exposures, raised_at,
                   cli_option, agg_sqls, agg_models, agg_result>>

Next ==
    \/ CallCrawler
    \/ TableauCrawlerCommand
    \/ RetrieveCustomSql
    \/ ParseCustomSql
    \/ RetrieveNativeSql
    \/ ParseNativeSql
    \/ Merge
    \/ RetrieveWorkbook
    \/ RetrieveWorkbookRaises
    \/ RetrieveUser
    \/ RetrieveUserRaises
    \/ SkipWorkbook
    \/ AddExposure
    \/ SignOut
    \/ Save

Spec == Init /\ [][Next]_vars

(***************************************************************************)
(* _parse_tables_from_sql called alone, on any mapping and registry        *)
(***************************************************************************)
InitAgg ==
    /\ pc = "aggregate"
    /\ Idle
    /\ agg_sqls \in Mappings(SeqsUpTo(Snippets, MaxSqls))
    /\ agg_models \in Registries
    /\ agg_result = <<>>

AggReturns ==
    /\ pc = "aggregate"
    /\ ~ParseTablesFromSql(agg_sqls, agg_models).raised
    /\ agg_result' = <<ParseTablesFromSql(agg_sqls, agg_models)>>
    /\ pc' = "returned"
    /\ UNCHANGED <<tableau_projects_to_ignore, method, workbooks_custom_sqls,
                   workbooks_custom_sql_models, workbooks_native_sqls,
                   workbooks_native_sql_models, workbooks_models, todo, current,
                   workbook, owner, calls, skipped, exposures, saved, raised_at,
                   cli_option, agg_sqls, agg_models>>

AggRaises ==
    /\ pc = "aggregate"
    /\ ParseTablesFromSql(agg_sqls, agg_models).raised
    /\ agg_result' = <<ParseTablesFromSql(agg_sqls, agg_models)>>
    /\ pc' = "raised"
    /\ raised_at' = "parse_tables_from_sql"
    /\ UNCHANGED <<tableau_projects_to_ignore, method, workbooks_custom_sqls,
                   workbooks_custom_sql_models, workbooks_native_sqls,
                   workbooks_native_sql_models, workbooks_models, todo, current,
                   workbook, owner, calls, skipped, exposures, saved,
                   cli_option, agg_sqls, agg_models>>

NextAgg ==
    \/ AggReturns
    \/ AggRaises

SpecAgg == InitAgg /\ [][NextAgg]_vars

(***************************************************************************)
(* Properties                                                              *)
(***************************************************************************)
Range(seq) == {seq[i] : i \in 1..Len(seq)}

Last(seq) == seq[Len(seq)]

RefOfId(id) == CHOOSE r \in Refs : r.id = id

\* the merge has run: workbooks_models holds the merged mapping
Merged ==
    \/ pc \in {"loop", "workbook", "owner", "signed_out", "done"}
    \/ pc = "raised" /\ raised_at \in {"retrieve_workbook", "retrieve_user"}

\* some snippet of the workbook with this identifier names a known model
HasMatch(workbooks_sqls, models, id) ==
    \E i \in 1..Len(workbooks_sqls) :
        /\ workbooks_sqls[i].ref.id = id
        /\ \E j \in 1..Len(workbooks_sqls[i].val) :
              SearchModelInQuery(workbooks_sqls[i].val[j], models) # <<>>

UniqueIds(found) == [i \in 1..Len(found) |-> found[i].unique_id]

ExposureIds == [i \in 1..Len(exposures) |-> exposures[i].id]

CallsOf(op) == SelectSeq(calls, LAMBDA c : c.op = op)

CallsAbout(op, id) == SelectSeq(calls, LAMBDA c : c.op = op /\ c.about = id)

\* C1: the aggregator's output has a workbook as key if and only if one of its
\* snippets yields a non-empty match, and no key maps to an empty list.
C1_OutputKeysAreMatchedWorkbooks ==
    (agg_result # <<>> /\ ~agg_result[1].raised) =>
        LET output == agg_result[1].output
        IN  /\ \A i \in 1..Len(agg_sqls) :
                  HasKey(output, agg_sqls[i].ref)
                      <=> HasMatch(agg_sqls, agg_models, agg_sqls[i].ref.id)
            /\ \A k \in 1..Len(output) :
                  /\ output[k].val # <<>>
                  /\ HasKey(agg_sqls, output[k].ref)

\* a workbook without snippets and one whose snippets name no model are left
\* out while another workbook is kept
C1_Witness ==
    /\ agg_result # <<>>
    /\ ~agg_result[1].raised
    /\ Len(agg_result[1].output) = 1
    /\ \E i \in 1..Len(agg_sqls) :
          /\ agg_sqls[i].val \in {<<>>, <<SqlNoModel, SqlNoModel>>}
          /\ ~HasKey(agg_result[1].output, agg_sqls[i].ref)

\* C2: the merged key set is the union of the two key sets, and the merged list
\* of a workbook is its custom-SQL list followed by its native-SQL list.
C2_MergeIsUnionAndConcatenation ==
    Merged =>
        /\ KeyIds(workbooks_models) =
              KeyIds(workbooks_custom_sql_models) \cup KeyIds(workbooks_native_sql_models)
        /\ \A r \in Refs :
              (HasKey(workbooks_custom_sql_models, r)
                    /\ HasKey(workbooks_native_sql_models, r)) =>
                 /\ Get(workbooks_models, r) =
                       Get(workbooks_custom_sql_models, r)
                           \o Get(workbooks_native_sql_models, r)
                 /\ Len(Get(workbooks_models, r)) =
                       Len(Get(workbooks_custom_sql_models, r))
                           + Len(Get(workbooks_native_sql_models, r))

\* a workbook in both mappings, with different lists, next to a workbook that
\* only the native mapping has
C2_Witness ==
    /\ Merged
    /\ \E r \in Refs :
          /\ HasKey(workbooks_custom_sql_models, r)
          /\ HasKey(workbooks_native_sql_models, r)
          /\ Get(workbooks_custom_sql_models, r) # Get(workbooks_native_sql_models, r)
          /\ Len(Get(workbooks_models, r)) = 4
    /\ \E r \in Refs :
          /\ ~HasKey(workbooks_custom_sql_models, r)
          /\ HasKey(workbooks_native_sql_models, r)

\* the project names the caller asked to ignore
IgnoredProjectNames ==
    IF cli_option # <<>> THEN {cli_option[1]}
    ELSE tableau_projects_to_ignore.items

\* the loop has just finished with the workbook it fetched last
JustProcessed == pc = "loop" /\ workbook # <<>>

JustSkipped == skipped # <<>> /\ Last(skipped) = workbook[1].id

\* C3: a workbook is excluded exactly when its project name is empty or is one
\* of the ignored project names, whatever ignore collection the crawler got.
C3_ExcludedIffPersonalOrIgnored ==
    JustProcessed =>
        (JustSkipped <=>
            \/ workbook[1].project_name = NoProject
            \/ workbook[1].project_name \in IgnoredProjectNames)

\* C4: a model id that occurs more than once in the match lists of a workbook
\* occurs exactly once in the depends-on list of the workbook's exposure.
C4_RepeatedModelDependsOnOnce ==
    \A k \in 1..Len(exposures) :
        LET r == RefOfId(exposures[k].id)
            merged == UniqueIds(Get(workbooks_models, r))
            sources == UniqueIds(Get(workbooks_custom_sql_models, r)
                                    \o Get(workbooks_native_sql_models, r))
        IN  \A m \in Range(UniqueIds(Models)) :
                (Count(m, merged) > 1 \/ Count(m, sources) > 1) =>
                    Count(m, exposures[k].depends_on) = 1

\* an exposure whose workbook has one model twice from one source and another
\* model once from each source
C4_Witness ==
    \E k \in 1..Len(exposures) :
        LET r == RefOfId(exposures[k].id)
        IN  /\ Count("m1", UniqueIds(Get(workbooks_custom_sql_models, r))) = 2
            /\ Count("m2", UniqueIds(Get(workbooks_custom_sql_models, r))) = 1
            /\ Count("m2", UniqueIds(Get(workbooks_native_sql_models, r))) = 1
            /\ Count("m2", UniqueIds(Get(workbooks_models, r))) = 2
            /\ exposures[k].depends_on = <<"m1", "m2">>

\* C5: the exposures registered by the run hold at most one entry per workbook
\* identifier, at every point of the run.
C5_OneExposurePerWorkbookId ==
    \A i, j \in 1..Len(exposures) :
        exposures[i].id = exposures[j].id => i = j

\* a finished run that registered a workbook which both sources matched, under
\* references that agree on the identifier only
C5_Witness ==
    /\ pc = "done"
    /\ \E i \in 1..Len(workbooks_custom_sql_models),
          j \in 1..Len(workbooks_native_sql_models) :
          /\ workbooks_custom_sql_models[i].ref.id = workbooks_native_sql_models[j].ref.id
          /\ workbooks_custom_sql_models[i].ref # workbooks_native_sql_models[j].ref
          /\ Count(workbooks_custom_sql_models[i].ref.id, ExposureIds) = 1

\* C6: a snippet that fails to scan counts as zero matches: the aggregator
\* returns the mapping the other snippets give instead of raising.
C6_FailedSnippetContributesNothing ==
    agg_result # <<>> =>
        agg_result[1] =
            [raised |-> FALSE, output |-> ParseOutput(agg_sqls, agg_models)]

FetchFailed == raised_at \in {"retrieve_workbook", "retrieve_user"}

\* C7: a failed workbook or owner fetch ends the run: the failing call is the
\* last one the client receives, nothing is registered afterwards and the
\* manifest is never persisted.
C7_FetchFailureAbortsRun ==
    /\ [](FetchFailed =>
            /\ pc = "raised"
            /\ saved = <<>>
            /\ Last(calls).op = raised_at
            /\ Last(calls).about = current[1].ref.id
            /\ Len(exposures) + Len(skipped) = Len(CallsOf("retrieve_workbook")) - 1)
    /\ [][FetchFailed => UNCHANGED <<calls, exposures, skipped, saved, todo, pc>>]_vars

\* the owner fetch of the second workbook fails after the first workbook was
\* registered, with nothing persisted
C7_Witness ==
    /\ pc = "raised"
    /\ raised_at = "retrieve_user"
    /\ Len(exposures) = 1
    /\ Len(CallsOf("retrieve_workbook")) = 2
    /\ saved = <<>>

\* some snippet of either SQL source matched for the workbook with this id
Survived(id) ==
    \/ HasMatch(workbooks_custom_sqls, Models, id)
    \/ HasMatch(workbooks_native_sqls, Models, id)

\* the step finishes a workbook: it is skipped or its exposure is registered
Finishes == skipped' # skipped \/ exposures' # exposures

\* C8: in a run without failure every workbook of the merged mapping, skipped
\* ones included, gets one workbook fetch and then one owner fetch, both before
\* its exclusion check, and a workbook without any match gets no fetch.
C8_FetchedExactlyTheMatched ==
    /\ [](pc = "done" =>
            \A id \in RefIds :
                IF id \in KeyIds(workbooks_models)
                THEN /\ Survived(id)
                     /\ Len(CallsAbout("retrieve_workbook", id)) = 1
                     /\ Len(CallsAbout("retrieve_user", id)) = 1
                     /\ \E i, j \in 1..Len(calls) :
                           /\ i < j
                           /\ calls[i] = Call("retrieve_workbook", id, id)
                           /\ calls[j] = Call("retrieve_user", OwnerId(id), id)
                ELSE /\ ~Survived(id)
                     /\ \A i \in 1..Len(calls) : calls[i].about # id)
    /\ [][Finishes =>
            /\ Len(calls) >= 2
            /\ calls' = calls
            /\ calls[Len(calls) - 1] =
                  Call("retrieve_workbook", current[1].ref.id, current[1].ref.id)
            /\ Last(calls) =
                  Call("retrieve_user", OwnerId(current[1].ref.id), current[1].ref.id)]_vars

\* a finished run with a skipped workbook that was fetched and a discovered
\* workbook that matched nothing and was never fetched
C8_Witness ==
    /\ pc = "done"
    /\ \E id \in Range(skipped) : Len(CallsAbout("retrieve_user", id)) = 1
    /\ \E id \in KeyIds(workbooks_custom_sqls) \cup KeyIds(workbooks_native_sqls) :
          /\ ~Survived(id)
          /\ CallsAbout("retrieve_workbook", id) = <<>>

Discovered(id) == id \in KeyIds(workbooks_custom_sqls) \cup KeyIds(workbooks_native_sqls)
Matched(id) == Merged /\ id \in KeyIds(workbooks_models)
Excluded(id) == id \in Range(skipped)
Exposed(id) == id \in Range(ExposureIds)

\* C9: a workbook is Excluded or Exposed only after being Matched (and Matched
\* only after being Discovered); a run that completes leaves every Matched
\* workbook in exactly one of the two; both are terminal.
C9_LifeCycle ==
    /\ [](\A id \in RefIds :
            /\ Matched(id) => Discovered(id)
            /\ (Excluded(id) \/ Exposed(id)) => Matched(id)
            /\ ~(Excluded(id) /\ Exposed(id))
            /\ (pc = "done" /\ Matched(id)) => (Excluded(id) \/ Exposed(id)))
    /\ [][\A id \in RefIds :
            /\ Excluded(id) =>
                  /\ Excluded(id)' /\ ~Exposed(id)'
                  /\ workbooks_models' = workbooks_models
                  /\ id \notin KeyIds(todo')
                  /\ Count(id, skipped') = 1
            /\ Exposed(id) =>
                  /\ Exposed(id)' /\ ~Excluded(id)'
                  /\ id \notin KeyIds(todo')
                  /\ Count(id, ExposureIds') = 1]_vars

\* a finished run with one workbook skipped and another one registered
C9_Witness ==
    /\ pc = "done"
    /\ \E a, b \in RefIds : a # b /\ Excluded(a) /\ Exposed(b)

\* workbooks with custom-SQL matches in the order of that mapping, then those
\* with native-SQL matches only in the order of the native mapping
ExpectedOrder ==
    KeyIdSeq(workbooks_custom_sql_models)
        \o SelectSeq(KeyIdSeq(workbooks_native_sql_models),
                     LAMBDA id : id \notin KeyIds(workbooks_custom_sql_models))

FetchedIds ==
    LET fetches == CallsOf("retrieve_workbook")
    IN  [i \in 1..Len(fetches) |-> fetches[i].about]

\* C10: workbooks are fetched one at a time in the order of the merged mapping
\* (custom-SQL keys, then native-only keys), the next fetch starts only once the
\* previous workbook is skipped or registered, and the exposures are registered
\* in that order.
C10_SequentialInMergedOrder ==
    /\ [](Merged =>
            /\ KeyIdSeq(workbooks_models) = ExpectedOrder
            /\ FetchedIds = SubSeq(ExpectedOrder, 1, Len(FetchedIds))
            /\ Len(skipped) + Len(exposures) \in {Len(FetchedIds), Len(FetchedIds) - 1}
            /\ ExposureIds =
                  SelectSeq(SubSeq(ExpectedOrder, 1, Len(skipped) + Len(exposures)),
                            LAMBDA id : id \notin Range(skipped)))
    /\ [][FetchedIds' # FetchedIds =>
            Len(skipped) + Len(exposures) = Len(FetchedIds)]_vars

\* a finished run that registered two workbooks, the first from the custom-SQL
\* mapping and the second, with the smaller identifier, from the native one only
C10_Witness ==
    /\ pc = "done"
    /\ ExposureIds = <<2, 1>>
    /\ KeyIdSeq(workbooks_native_sql_models) = <<1, 2>>
    /\ KeyIdSeq(workbooks_custom_sql_models) = <<2>>

====
